---- MODULE Spec2Model ----
(***************************************************************************)
(* BitTask: the local-first data layer (Dexie tables tasks, attachments,   *)
(* offlineOps, boards, subtasks), the task, file, subtask and board        *)
(* services that write to them, and the offline queue operations of        *)
(* useOfflineQueue.                                                        *)
(*                                                                         *)
(* Concurrency: one JavaScript thread.  A call runs its synchronous code   *)
(* up to the next awaited store request; the request itself is one atomic  *)
(* step, and other calls may run between two steps of a call.  An action   *)
(* named after a store request models that request together with the       *)
(* synchronous code that runs when it resolves.                            *)
(***************************************************************************)
EXTENDS Integers, Sequences, FiniteSets, TLC

----------------------------------------------------------------------------
(* Bounds *)

MaxTasks == 2        \* primary keys the tasks table hands out
MaxAttachments == 1  \* primary keys the attachments table hands out
MaxOps == 4          \* primary keys the offlineOps table hands out
MaxTime == 2         \* largest reading of the clock
MaxRetryCount == 2   \* markFailed is not called on an entry beyond this
MaxSubtasks == 2     \* primary keys the subtasks table hands out
MaxBoards == 2       \* primary keys the boards table hands out

Procs == {1, 2}   \* two calls may be pending at the same time
Titles == {"a"}
Errors == {"Network error"}

----------------------------------------------------------------------------
(* JavaScript values that need their type kept *)

JSBoolean(b) == [type |-> "boolean", val |-> IF b THEN 1 ELSE 0]
JSNumber(n) == [type |-> "number", val |-> n]
Undefined == [undefined |-> TRUE]
Null == [null |-> TRUE]

DEFAULT_MAX_RETRIES == 3

VARIABLES
  tasks,              \* db.tasks: primary key -> Task
  attachments,        \* db.attachments: primary key -> Attachment
  offlineOps,         \* db.offlineOps: primary key -> OfflineOp
  nextTaskKey,        \* auto-increment key generator of db.tasks
  nextAttachmentKey,  \* auto-increment key generator of db.attachments
  nextOpKey,          \* auto-increment key generator of db.offlineOps
  clock,              \* what new Date() returns
  call,               \* per pending call: operation, position, arguments, locals
  created,            \* history: the sequentialIds given out, in order of tasks.add
  serial,             \* history: no call has yet started while another was pending
  boards,             \* db.boards: primary key -> Board
  subtasks,           \* db.subtasks: primary key -> Subtask
  nextBoardKey,       \* auto-increment key generator of db.boards
  nextSubtaskKey,     \* auto-increment key generator of db.subtasks
  log                 \* history: while calls are serial, the task mutations called on a stored task

vars == <<tasks, attachments, offlineOps, nextTaskKey, nextAttachmentKey,
          nextOpKey, clock, call, created, serial,
          boards, subtasks, nextBoardKey, nextSubtaskKey, log>>

boardsAndSubtasks == <<boards, subtasks, nextBoardKey, nextSubtaskKey>>

stores == <<tasks, attachments, offlineOps, nextTaskKey, nextAttachmentKey, nextOpKey,
            boardsAndSubtasks>>

----------------------------------------------------------------------------
(* Dexie tables *)

\* IndexedDB keys are numbers, dates, strings, binary and arrays; a record
\* whose indexed property is anything else (a boolean) is left out of the index.
\* offlineOps declares the index 'synced' and every writer stores synced as
\* true or false; taskService filters 'completed' in memory for this reason.
IsValidKey(v) == v.type \in {"number", "date", "string"}

TableGet(table, key) == IF key \in DOMAIN table THEN table[key] ELSE Undefined

TableAdd(table, key, rec) == table @@ (key :> rec)

TablePut(table, key, rec) == [k \in DOMAIN table \cup {key} |-> IF k = key THEN rec ELSE table[k]]

TableDelete(table, keys) == [k \in DOMAIN table \ keys |-> table[k]]

Modify(rec, changes) ==
  [f \in DOMAIN rec \cup DOMAIN changes |-> IF f \in DOMAIN changes THEN changes[f] ELSE rec[f]]

\* Table.update(key, changes): changes the record when the key exists, else nothing
TableUpdate(table, key, changes) ==
  IF key \in DOMAIN table
  THEN [table EXCEPT ![key] = Modify(table[key], changes)]
  ELSE table

RECURSIVE Ascending(_)
\* the elements of a finite set of integers, smallest first
Ascending(S) ==
  IF S = {} THEN <<>>
  ELSE LET m == CHOOSE x \in S : \A y \in S : x <= y
       IN <<m>> \o Ascending(S \ {m})

\* table.where(field).equals(key): the primary keys of the index entries that
\* equal key, in index order (equal index keys: by primary key)
WhereEquals(table, field, key) ==
  Ascending({k \in DOMAIN table : IsValidKey(table[k][field]) /\ table[k][field] = key})

\* collection.toArray(): the records, each with its primary key as id
ToArray(table, keys) == [i \in 1..Len(keys) |-> Modify(table[keys[i]], [id |-> keys[i]])]

RECURSIVE InsertByTimestamp(_, _)
\* e placed after every element of the sorted s whose timestamp is <= e's
InsertByTimestamp(s, e) ==
  IF s = <<>> THEN <<e>>
  ELSE IF e.timestamp < Head(s).timestamp THEN <<e>> \o s
  ELSE <<Head(s)>> \o InsertByTimestamp(Tail(s), e)

RECURSIVE SortByTimestamp(_)
\* collection.sortBy('timestamp'): a stable ascending sort
SortByTimestamp(s) ==
  IF s = <<>> THEN <<>>
  ELSE InsertByTimestamp(SortByTimestamp(SubSeq(s, 1, Len(s) - 1)), s[Len(s)])

----------------------------------------------------------------------------
(* Calls *)

NoArgs == [none |-> TRUE]

IdleCall == [op |-> "none", pc |-> "idle", solo |-> TRUE, args |-> NoArgs,
             local |-> Undefined, ret |-> Undefined]

Active(p) == call[p].pc \notin {"idle", "done"}

\* a call that has returned hands its result to its caller before anything
\* else runs
NoneDone == \A q \in Procs : call[q].pc # "done"

Quiet(p) == \A q \in Procs \ {p} : ~Active(q)

TaskMutations == {"createTask", "updateTask", "deleteTask"}

\* p starts a call: every call pending at that moment overlaps with it
Begin(p, op, pc, args) ==
  /\ NoneDone
  /\ ~Active(p)
  /\ call' = [q \in Procs |->
       IF q = p
       THEN [op |-> op, pc |-> pc, solo |-> Quiet(p), args |-> args,
             local |-> Undefined, ret |-> Undefined]
       ELSE IF Active(q) THEN [call[q] EXCEPT !.solo = FALSE] ELSE call[q]]
  /\ serial' = (serial /\ Quiet(p))
  /\ log' = IF ~(serial /\ Quiet(p)) THEN <<>>
            ELSE IF op = "createTask" THEN Append(log, [op |-> op, id |-> nextTaskKey])
            ELSE IF op \in TaskMutations /\ args.id \in DOMAIN tasks
                 THEN Append(log, [op |-> op, id |-> args.id])
            ELSE log

Step(p, pc, local) ==
  call' = [call EXCEPT ![p].pc = pc, ![p].local = local]

Return(p, local, ret) ==
  call' = [call EXCEPT ![p].pc = "done", ![p].local = local, ![p].ret = ret]

At(p, op, pc) == NoneDone /\ call[p].op = op /\ call[p].pc = pc

\* the caller takes the result
Ack(p) ==
  /\ call[p].pc = "done"
  /\ call' = [call EXCEPT ![p] = IdleCall]
  /\ UNCHANGED <<stores, clock, created, serial, log>>

AckNext == \E p \in Procs : Ack(p)

\* calls that will still take a key of the table when they go on
WillAdd(ops, pcs) == Cardinality({p \in Procs : call[p].op \in ops /\ call[p].pc \in pcs})

EnqueuingOps ==
  {"createTask", "updateTask", "toggleTaskComplete", "deleteTask", "createAttachment",
   "deleteAttachment"}

\* room in the queue for one more call that enqueues
QueueHasRoom ==
  nextOpKey + WillAdd(EnqueuingOps, {"seq", "get", "add", "put", "attachments", "delete", "queue"})
    <= MaxOps

----------------------------------------------------------------------------
(* taskService *)

\* generateId(): a token no other entry has
GenerateId(key) == key

QueueOfflineOp_SyncedTrue(opType, entity, entityId, payload) ==
  /\ offlineOps' = TableAdd(offlineOps, nextOpKey,
       [opId |-> GenerateId(nextOpKey), opType |-> opType, entity |-> entity,
        entityId |-> entityId, payload |-> payload, timestamp |-> clock,
        synced |-> JSBoolean(TRUE), retryCount |-> 0])
  /\ nextOpKey' = nextOpKey + 1

\* The entry is built, timestamp included, in the synchronous code that issues
\* db.offlineOps.add, and requests on one table run in the order they were
\* issued: entries get ascending keys in the order of their timestamps, which
\* is what reading the clock in the step of the add gives.
QueueOfflineOp(opType, entity, entityId, payload) ==
  /\ offlineOps' = TableAdd(offlineOps, nextOpKey,
       [opId |-> GenerateId(nextOpKey), opType |-> opType, entity |-> entity,
        entityId |-> entityId, payload |-> payload, timestamp |-> clock,
        synced |-> JSBoolean(FALSE), retryCount |-> 0])
  /\ nextOpKey' = nextOpKey + 1

\* db.tasks.orderBy('sequentialId').last()
LastBySequentialId(table) ==
  IF DOMAIN table = {} THEN Undefined
  ELSE table[CHOOSE k \in DOMAIN table :
               \A j \in DOMAIN table :
                  \/ table[j].sequentialId < table[k].sequentialId
                  \/ (table[j].sequentialId = table[k].sequentialId /\ j <= k)]

GetNextSequentialId(table) ==
  LET lastTask == LastBySequentialId(table)
  IN (IF lastTask = Undefined THEN 0 ELSE lastTask.sequentialId) + 1

CallCreateTask(p, title, completed) ==
  /\ nextTaskKey + WillAdd({"createTask"}, {"seq", "add"}) <= MaxTasks
  /\ QueueHasRoom
  /\ Begin(p, "createTask", "seq", [title |-> title, completed |-> completed, now |-> clock])
  /\ UNCHANGED <<stores, clock, created>>

\* createTask of a task of a board
CallCreateTaskInBoard(p, title, completed, boardId) ==
  /\ nextTaskKey + WillAdd({"createTask"}, {"seq", "add"}) <= MaxTasks
  /\ QueueHasRoom
  /\ Begin(p, "createTask", "seq",
           [title |-> title, completed |-> completed, boardId |-> boardId, now |-> clock])
  /\ UNCHANGED <<stores, clock, created>>

\* the input of the call: the arguments kept for it, less the reading of the clock
TaskInput(args) == [f \in DOMAIN args \ {"now"} |-> args[f]]

CreateTaskSequentialId(p) ==
  /\ At(p, "createTask", "seq")
  /\ Step(p, "add", [task |-> Modify(TaskInput(call[p].args),
                                      [sequentialId |-> GetNextSequentialId(tasks),
                                       createdAt |-> call[p].args.now,
                                       updatedAt |-> call[p].args.now])])
  /\ UNCHANGED <<stores, clock, created, serial, log>>

CreateTaskAdd(p) ==
  /\ At(p, "createTask", "add")
  /\ tasks' = TableAdd(tasks, nextTaskKey, call[p].local.task)
  /\ nextTaskKey' = nextTaskKey + 1
  /\ created' = Append(created, call[p].local.task.sequentialId)
  /\ Step(p, "queue", [task |-> call[p].local.task, id |-> nextTaskKey])
  /\ UNCHANGED <<boardsAndSubtasks, attachments, offlineOps, nextAttachmentKey, nextOpKey,
                 clock, serial, log>>

CreateTaskQueue(p) ==
  /\ At(p, "createTask", "queue")
  /\ QueueOfflineOp("create", "task", call[p].local.id, call[p].local.task)
  /\ Return(p, call[p].local, [task |-> Modify(call[p].local.task, [id |-> call[p].local.id])])
  /\ UNCHANGED <<boardsAndSubtasks, tasks, attachments, nextTaskKey, nextAttachmentKey, clock,
                 created, serial, log>>

Deltas == {[title |-> "b"], [completed |-> TRUE]}

CallUpdateTask(p, id, updates) ==
  /\ QueueHasRoom
  /\ Begin(p, "updateTask", "get", [id |-> id, updates |-> updates])
  /\ UNCHANGED <<stores, clock, created>>

UpdateTaskGet_NoCheck(p) ==
  /\ At(p, "updateTask", "get")
  /\ LET task == TableGet(tasks, call[p].args.id)
     IN Step(p, "put", Modify(Modify(IF task = Undefined THEN <<>> ELSE task,
                                     call[p].args.updates), [updatedAt |-> clock]))
  /\ UNCHANGED <<stores, clock, created, serial, log>>

UpdateTaskGet(p) ==
  /\ At(p, "updateTask", "get")
  /\ LET task == TableGet(tasks, call[p].args.id)
     IN IF task = Undefined
        THEN Return(p, Undefined, Undefined)
        ELSE Step(p, "put", Modify(Modify(task, call[p].args.updates), [updatedAt |-> clock]))
  /\ UNCHANGED <<stores, clock, created, serial, log>>

UpdateTaskPut(p) ==
  /\ At(p, "updateTask", "put")
  /\ tasks' = TablePut(tasks, call[p].args.id, call[p].local)
  /\ Step(p, "queue", call[p].local)
  /\ UNCHANGED <<boardsAndSubtasks, attachments, offlineOps, nextTaskKey, nextAttachmentKey,
                 nextOpKey,
                 clock, created, serial, log>>

UpdateTaskQueue_NoEntry(p) ==
  /\ At(p, "updateTask", "queue")
  /\ Return(p, call[p].local, [task |-> Modify(call[p].local, [id |-> call[p].args.id])])
  /\ UNCHANGED <<stores, clock, created, serial, log>>

UpdateTaskQueue(p) ==
  /\ At(p, "updateTask", "queue")
  /\ QueueOfflineOp("update", "task", call[p].args.id, call[p].args.updates)
  /\ Return(p, call[p].local, [task |-> Modify(call[p].local, [id |-> call[p].args.id])])
  /\ UNCHANGED <<boardsAndSubtasks, tasks, attachments, nextTaskKey, nextAttachmentKey, clock,
                 created, serial, log>>

CallToggleTaskComplete(p, id) ==
  /\ QueueHasRoom
  /\ Begin(p, "toggleTaskComplete", "get", [id |-> id])
  /\ UNCHANGED <<stores, clock, created>>

ToggleTaskCompleteGet_Same(p) ==
  /\ At(p, "toggleTaskComplete", "get")
  /\ LET task == TableGet(tasks, call[p].args.id)
     IN IF task = Undefined
        THEN Return(p, Undefined, Undefined)
        ELSE call' = [call EXCEPT ![p].op = "updateTask", ![p].pc = "get",
                                  ![p].args = [id |-> call[p].args.id,
                                               updates |-> [completed |-> task.completed],
                                               from |-> "toggleTaskComplete"]]
  /\ log' = IF serial /\ call[p].args.id \in DOMAIN tasks
            THEN Append(log, [op |-> "toggleTaskComplete", id |-> call[p].args.id])
            ELSE log
  /\ UNCHANGED <<stores, clock, created, serial>>

\* the task is read; when it is stored the call goes on as
\* updateTask(id, { completed: !task.completed }) and returns what that returns.
\* from is history: the updateTask call was made by toggleTaskComplete
ToggleTaskCompleteGet(p) ==
  /\ At(p, "toggleTaskComplete", "get")
  /\ LET task == TableGet(tasks, call[p].args.id)
     IN IF task = Undefined
        THEN Return(p, Undefined, Undefined)
        ELSE call' = [call EXCEPT ![p].op = "updateTask", ![p].pc = "get",
                                  ![p].args = [id |-> call[p].args.id,
                                               updates |-> [completed |-> ~task.completed],
                                               from |-> "toggleTaskComplete"]]
  /\ log' = IF serial /\ call[p].args.id \in DOMAIN tasks
            THEN Append(log, [op |-> "toggleTaskComplete", id |-> call[p].args.id])
            ELSE log
  /\ UNCHANGED <<stores, clock, created, serial>>

\* attachmentKeys is history: the attachments stored when the call starts
CallDeleteTask(p, id) ==
  /\ QueueHasRoom
  /\ Begin(p, "deleteTask", "get", [id |-> id, attachmentKeys |-> DOMAIN attachments])
  /\ UNCHANGED <<stores, clock, created>>

DeleteTaskGet(p) ==
  /\ At(p, "deleteTask", "get")
  /\ LET task == TableGet(tasks, call[p].args.id)
     IN IF task = Undefined
        THEN Return(p, Undefined, [bool |-> FALSE])
        ELSE Step(p, "attachments", task)
  /\ UNCHANGED <<stores, clock, created, serial, log>>

\* db.attachments.where('taskId').equals(id).delete()
DeleteTaskAttachments(p) ==
  /\ At(p, "deleteTask", "attachments")
  /\ attachments' = TableDelete(attachments,
       {k \in DOMAIN attachments : attachments[k].taskId = call[p].args.id})
  /\ Step(p, "delete", call[p].local)
  /\ UNCHANGED <<boardsAndSubtasks, tasks, offlineOps, nextTaskKey, nextAttachmentKey, nextOpKey,
                 clock, created, serial, log>>

DeleteTaskDelete(p) ==
  /\ At(p, "deleteTask", "delete")
  /\ tasks' = TableDelete(tasks, {call[p].args.id})
  /\ Step(p, "queue", call[p].local)
  /\ UNCHANGED <<boardsAndSubtasks, attachments, offlineOps, nextTaskKey, nextAttachmentKey,
                 nextOpKey,
                 clock, created, serial, log>>

DeleteTaskQueue(p) ==
  /\ At(p, "deleteTask", "queue")
  /\ QueueOfflineOp("delete", "task", call[p].args.id, Null)
  /\ Return(p, call[p].local, [bool |-> TRUE])
  /\ UNCHANGED <<boardsAndSubtasks, tasks, attachments, nextTaskKey, nextAttachmentKey, clock,
                 created, serial, log>>

----------------------------------------------------------------------------
(* fileService *)

\* MIME types by attachment type
ALLOWED_MIME_TYPES ==
  [image |-> {"image/jpeg", "image/png", "image/gif", "image/webp"},
   audio |-> {"audio/mpeg", "audio/wav", "audio/ogg", "audio/webm", "audio/mp4"},
   pdf |-> {"application/pdf"},
   link |-> {}]

DEFAULT_MAX_SIZE == 20 * 1024 * 1024

\* getAttachmentType: the attachment type of the MIME type, or null
GetAttachmentType(mimeType) ==
  IF \E type \in DOMAIN ALLOWED_MIME_TYPES : mimeType \in ALLOWED_MIME_TYPES[type]
  THEN [type |-> CHOOSE type \in DOMAIN ALLOWED_MIME_TYPES : mimeType \in ALLOWED_MIME_TYPES[type]]
  ELSE Null

\* validateFile: the size is checked first, then the MIME type
ValidateFile(file, maxSize) ==
  IF file.size > maxSize
  THEN [valid |-> FALSE, error |-> "File size exceeds maximum allowed"]
  ELSE IF GetAttachmentType(file.type) = Null
       THEN [valid |-> FALSE, error |-> "File type not supported"]
       ELSE [valid |-> TRUE]

\* the files a caller may pass: a type of the allow-list and one outside it, a
\* size at the default maximum and one above it
Files ==
  {[type |-> t, size |-> n] : t \in {"application/pdf", "text/plain"},
                              n \in {DEFAULT_MAX_SIZE, DEFAULT_MAX_SIZE + 1}}

AttachmentAdders == {"createAttachment", "createLinkAttachment"}

\* createAttachment(taskId, file, compress) of a file that is not compressed.
\* A file whose type getAttachmentType does not know makes the call throw
\* before its first request; otherwise now is read before the attachment is
\* added, and the queue entry is stamped with it.
\* taskStored is history: the task was stored when the call started
CallCreateAttachmentFile(p, taskId, file) ==
  /\ nextAttachmentKey + WillAdd(AttachmentAdders, {"add"}) <= MaxAttachments
  /\ QueueHasRoom
  /\ IF GetAttachmentType(file.type) = Null
     THEN /\ NoneDone
          /\ ~Active(p)
          /\ call' = [call EXCEPT ![p] =
               [op |-> "createAttachment", pc |-> "done", solo |-> Quiet(p),
                args |-> [taskId |-> taskId, now |-> clock, file |-> file,
                         taskStored |-> taskId \in DOMAIN tasks],
                local |-> Undefined, ret |-> [thrown |-> "Unsupported file type"]]]
          /\ UNCHANGED <<serial, log>>
     ELSE Begin(p, "createAttachment", "add",
                [taskId |-> taskId, now |-> clock, file |-> file,
                 taskStored |-> taskId \in DOMAIN tasks])
  /\ UNCHANGED <<stores, clock, created>>

\* createAttachment of a file of an allowed type
CallCreateAttachment(p, taskId) ==
  CallCreateAttachmentFile(p, taskId, [type |-> "application/pdf", size |-> 1])

CreateAttachmentAdd(p) ==
  /\ At(p, "createAttachment", "add")
  /\ attachments' = TableAdd(attachments, nextAttachmentKey,
       [taskId |-> call[p].args.taskId,
        type |-> GetAttachmentType(call[p].args.file.type).type,
        mimeType |-> call[p].args.file.type, size |-> call[p].args.file.size,
        createdAt |-> call[p].args.now])
  /\ nextAttachmentKey' = nextAttachmentKey + 1
  /\ Step(p, "queue", [id |-> nextAttachmentKey])
  /\ UNCHANGED <<boardsAndSubtasks, tasks, offlineOps, nextTaskKey, nextOpKey,
                 clock, created, serial, log>>

CreateAttachmentQueue(p) ==
  /\ At(p, "createAttachment", "queue")
  /\ offlineOps' = TableAdd(offlineOps, nextOpKey,
       [opId |-> GenerateId(nextOpKey), opType |-> "create", entity |-> "attachment",
        entityId |-> call[p].local.id,
        payload |-> [taskId |-> call[p].args.taskId,
                     type |-> GetAttachmentType(call[p].args.file.type).type,
                     size |-> call[p].args.file.size],
        timestamp |-> call[p].args.now, synced |-> JSBoolean(FALSE), retryCount |-> 0])
  /\ nextOpKey' = nextOpKey + 1
  /\ Return(p, call[p].local, [attachment |-> call[p].local.id])
  /\ UNCHANGED <<boardsAndSubtasks, tasks, attachments, nextTaskKey, nextAttachmentKey, clock,
                 created, serial, log>>

\* createLinkAttachment: the link is added; nothing is enqueued
CallCreateLinkAttachment(p, taskId) ==
  /\ nextAttachmentKey + WillAdd(AttachmentAdders, {"add"}) <= MaxAttachments
  /\ Begin(p, "createLinkAttachment", "add",
           [taskId |-> taskId, now |-> clock, taskStored |-> taskId \in DOMAIN tasks])
  /\ UNCHANGED <<stores, clock, created>>

CreateLinkAttachmentAdd(p) ==
  /\ At(p, "createLinkAttachment", "add")
  /\ attachments' = TableAdd(attachments, nextAttachmentKey,
       [taskId |-> call[p].args.taskId, type |-> "link", mimeType |-> "text/uri-list",
        size |-> 1, createdAt |-> call[p].args.now])
  /\ nextAttachmentKey' = nextAttachmentKey + 1
  /\ Return(p, [id |-> nextAttachmentKey], [attachment |-> nextAttachmentKey])
  /\ UNCHANGED <<boardsAndSubtasks, tasks, offlineOps, nextTaskKey, nextOpKey,
                 clock, created, serial, log>>

CallDeleteAttachment(p, id) ==
  /\ QueueHasRoom
  /\ Begin(p, "deleteAttachment", "get", [id |-> id])
  /\ UNCHANGED <<stores, clock, created>>

DeleteAttachmentGet(p) ==
  /\ At(p, "deleteAttachment", "get")
  /\ LET attachment == TableGet(attachments, call[p].args.id)
     IN IF attachment = Undefined
        THEN Return(p, Undefined, [bool |-> FALSE])
        ELSE Step(p, "delete", attachment)
  /\ UNCHANGED <<stores, clock, created, serial, log>>

DeleteAttachmentDelete(p) ==
  /\ At(p, "deleteAttachment", "delete")
  /\ attachments' = TableDelete(attachments, {call[p].args.id})
  /\ Step(p, "queue", call[p].local)
  /\ UNCHANGED <<boardsAndSubtasks, tasks, offlineOps, nextTaskKey, nextAttachmentKey, nextOpKey,
                 clock, created, serial, log>>

\* the entry is stamped with the time of the enqueue
DeleteAttachmentQueue(p) ==
  /\ At(p, "deleteAttachment", "queue")
  /\ offlineOps' = TableAdd(offlineOps, nextOpKey,
       [opId |-> GenerateId(nextOpKey), opType |-> "delete", entity |-> "attachment",
        entityId |-> call[p].args.id, payload |-> Null,
        timestamp |-> clock, synced |-> JSBoolean(FALSE), retryCount |-> 0])
  /\ nextOpKey' = nextOpKey + 1
  /\ Return(p, call[p].local, [bool |-> TRUE])
  /\ UNCHANGED <<boardsAndSubtasks, tasks, attachments, nextTaskKey, nextAttachmentKey,
                 clock, created, serial, log>>

----------------------------------------------------------------------------
(* useOfflineQueue *)

\* usePendingOpsCount: db.offlineOps.where('synced').equals(0).count()
usePendingOpsCount == Len(WhereEquals(offlineOps, "synced", JSNumber(0)))

\* usePendingOps: db.offlineOps.where('synced').equals(0).sortBy('timestamp')
usePendingOps ==
  SortByTimestamp(ToArray(offlineOps, WhereEquals(offlineOps, "synced", JSNumber(0))))

MarkSynced_Toggle(table, id) ==
  IF id \in DOMAIN table
  THEN TableUpdate(table, id, [synced |-> JSBoolean(table[id].synced = JSBoolean(FALSE))])
  ELSE table

\* db.offlineOps.update(id, { synced: true })
MarkSynced(table, id) == TableUpdate(table, id, [synced |-> JSBoolean(TRUE)])

CallMarkSynced(p, id) ==
  /\ Begin(p, "markSynced", "update", [id |-> id])
  /\ UNCHANGED <<stores, clock, created>>

MarkSyncedUpdate(p) ==
  /\ At(p, "markSynced", "update")
  /\ offlineOps' = MarkSynced(offlineOps, call[p].args.id)
  /\ Return(p, Undefined, Undefined)
  /\ UNCHANGED <<boardsAndSubtasks, tasks, attachments, nextTaskKey, nextAttachmentKey, nextOpKey,
                 clock, created, serial, log>>

CallMarkFailed(p, id, error) ==
  /\ id \in DOMAIN offlineOps => offlineOps[id].retryCount < MaxRetryCount
  /\ Begin(p, "markFailed", "get", [id |-> id, error |-> error])
  /\ UNCHANGED <<stores, clock, created>>

MarkFailedGet(p) ==
  /\ At(p, "markFailed", "get")
  /\ LET op == TableGet(offlineOps, call[p].args.id)
     IN IF op = Undefined
        THEN Return(p, Undefined, Undefined)
        ELSE Step(p, "update", op)
  /\ UNCHANGED <<stores, clock, created, serial, log>>

MarkFailedUpdate_NoIncrement(p) ==
  /\ At(p, "markFailed", "update")
  /\ offlineOps' = TableUpdate(offlineOps, call[p].args.id,
       [lastError |-> call[p].args.error, retryCount |-> call[p].local.retryCount])
  /\ Return(p, call[p].local, Undefined)
  /\ UNCHANGED <<boardsAndSubtasks, tasks, attachments, nextTaskKey, nextAttachmentKey, nextOpKey,
                 clock, created, serial, log>>

MarkFailedUpdate(p) ==
  /\ At(p, "markFailed", "update")
  /\ offlineOps' = TableUpdate(offlineOps, call[p].args.id,
       [lastError |-> call[p].args.error, retryCount |-> call[p].local.retryCount + 1])
  /\ Return(p, call[p].local, Undefined)
  /\ UNCHANGED <<boardsAndSubtasks, tasks, attachments, nextTaskKey, nextAttachmentKey, nextOpKey,
                 clock, created, serial, log>>

CallCleanupSynced(p) ==
  /\ Begin(p, "cleanupSynced", "delete", NoArgs)
  /\ UNCHANGED <<stores, clock, created>>

\* db.offlineOps.where('synced').equals(1).delete(): resolves to the number deleted
CleanupSyncedDelete(p) ==
  /\ At(p, "cleanupSynced", "delete")
  /\ LET keys == WhereEquals(offlineOps, "synced", JSNumber(1))
     IN /\ offlineOps' = TableDelete(offlineOps, {keys[i] : i \in 1..Len(keys)})
        /\ Return(p, Undefined, [count |-> Len(keys)])
  /\ UNCHANGED <<boardsAndSubtasks, tasks, attachments, nextTaskKey, nextAttachmentKey, nextOpKey,
                 clock, created, serial, log>>

\* maxRetries as passed, or the default when the argument is left out
MaxRetriesArgs == {[maxRetries |-> n] : n \in 0..MaxRetryCount} \cup {Undefined}

CallGetReadyForSync(p, arg) ==
  /\ Begin(p, "getReadyForSync", "toArray",
           [given |-> arg,
            maxRetries |-> IF arg = Undefined THEN DEFAULT_MAX_RETRIES ELSE arg.maxRetries])
  /\ UNCHANGED <<stores, clock, created>>

RECURSIVE SelectSeq2(_, _)
\* Array.prototype.filter for retryCount < maxRetries
SelectSeq2(s, maxRetries) ==
  IF s = <<>> THEN <<>>
  ELSE IF Head(s).retryCount < maxRetries
       THEN <<Head(s)>> \o SelectSeq2(Tail(s), maxRetries)
       ELSE SelectSeq2(Tail(s), maxRetries)

GetReadyForSyncToArray(p) ==
  /\ At(p, "getReadyForSync", "toArray")
  /\ LET pending == ToArray(offlineOps, WhereEquals(offlineOps, "synced", JSNumber(0)))
     IN Return(p, Undefined, [ops |-> SelectSeq2(pending, call[p].args.maxRetries)])
  /\ UNCHANGED <<stores, clock, created, serial, log>>

\* remoteState: null, an object without updatedAt, or an object with a Date
RemoteStates == {Null, [none |-> TRUE]} \cup {[updatedAt |-> t] : t \in 0..(MaxTime + 1)}

ReconcileConflict_TieLocal(localOp, remoteState) ==
  IF remoteState = Null THEN "local"
  ELSE IF "updatedAt" \notin DOMAIN remoteState THEN "local"
  ELSE IF localOp.timestamp >= remoteState.updatedAt THEN "local" ELSE "remote"

\* updatedAt is a Date: an object, truthy whatever its time (0 included), so
\* !remoteState.updatedAt holds only when the property is missing
ReconcileConflict(localOp, remoteState) ==
  IF remoteState = Null THEN "local"
  ELSE IF "updatedAt" \notin DOMAIN remoteState THEN "local"
  ELSE LET localTime == localOp.timestamp
           remoteTime == remoteState.updatedAt
       IN IF localTime > remoteTime THEN "local" ELSE "remote"

\* reconcileConflict is synchronous: called and returned in one step
CallReconcileConflict(p, id, remoteState) ==
  /\ id \in DOMAIN offlineOps
  /\ NoneDone
  /\ ~Active(p)
  /\ call' = [call EXCEPT ![p] =
       [op |-> "reconcileConflict", pc |-> "done", solo |-> Quiet(p),
        args |-> [localOp |-> offlineOps[id], remoteState |-> remoteState],
        local |-> Undefined,
        ret |-> [winner |-> ReconcileConflict(offlineOps[id], remoteState)]]]
  /\ UNCHANGED <<stores, clock, created, serial, log>>

----------------------------------------------------------------------------
(* subtaskService *)

SubtaskTitles == {"s"}

\* input.order as getNextSubtaskOrder gives it for a task without subtasks
SubtaskOrders == {0}

CallCreateSubtask(p, taskId, title, order) ==
  /\ nextSubtaskKey + WillAdd({"createSubtask"}, {"add"}) <= MaxSubtasks
  /\ Begin(p, "createSubtask", "add",
           [taskId |-> taskId, title |-> title, order |-> order, now |-> clock])
  /\ UNCHANGED <<stores, clock, created>>

CreateSubtaskAdd(p) ==
  /\ At(p, "createSubtask", "add")
  /\ subtasks' = TableAdd(subtasks, nextSubtaskKey,
       [taskId |-> call[p].args.taskId, title |-> call[p].args.title, completed |-> FALSE,
        order |-> call[p].args.order,
        createdAt |-> call[p].args.now, updatedAt |-> call[p].args.now])
  /\ nextSubtaskKey' = nextSubtaskKey + 1
  /\ Step(p, "get", [id |-> nextSubtaskKey])
  /\ UNCHANGED <<tasks, attachments, offlineOps, nextTaskKey, nextAttachmentKey, nextOpKey,
                 boards, nextBoardKey, clock, created, serial, log>>

\* the subtask is read back; a subtask that is gone by then is a thrown Error
CreateSubtaskGet(p) ==
  /\ At(p, "createSubtask", "get")
  /\ LET subtask == TableGet(subtasks, call[p].local.id)
     IN IF subtask = Undefined
        THEN Return(p, call[p].local, [thrown |-> "Failed to create subtask"])
        ELSE Return(p, call[p].local, [subtask |-> Modify(subtask, [id |-> call[p].local.id])])
  /\ UNCHANGED <<stores, clock, created, serial, log>>

CallDeleteSubtasksByTaskId(p, taskId) ==
  /\ Begin(p, "deleteSubtasksByTaskId", "delete", [taskId |-> taskId])
  /\ UNCHANGED <<stores, clock, created>>

\* db.subtasks.where('taskId').equals(taskId).delete(): resolves to the number deleted
DeleteSubtasksByTaskIdDelete(p) ==
  /\ At(p, "deleteSubtasksByTaskId", "delete")
  /\ LET keys == {k \in DOMAIN subtasks : subtasks[k].taskId = call[p].args.taskId}
     IN /\ subtasks' = TableDelete(subtasks, keys)
        /\ Return(p, Undefined, [count |-> Cardinality(keys)])
  /\ UNCHANGED <<tasks, attachments, offlineOps, nextTaskKey, nextAttachmentKey, nextOpKey,
                 boards, nextBoardKey, nextSubtaskKey, clock, created, serial, log>>

SubtaskDeltas == {[completed |-> TRUE]}

\* the ids a caller may pass: those of the subtasks, and one that names no subtask
SubtaskIds == 1..(MaxSubtasks + 1)

CallUpdateSubtask(p, id, updates) ==
  /\ Begin(p, "updateSubtask", "update", [id |-> id, updates |-> updates, now |-> clock])
  /\ UNCHANGED <<stores, clock, created>>

\* db.subtasks.update(id, { ...updates, updatedAt: now })
UpdateSubtaskUpdate(p) ==
  /\ At(p, "updateSubtask", "update")
  /\ subtasks' = TableUpdate(subtasks, call[p].args.id,
       Modify(call[p].args.updates, [updatedAt |-> call[p].args.now]))
  /\ Step(p, "get", Undefined)
  /\ UNCHANGED <<tasks, attachments, offlineOps, nextTaskKey, nextAttachmentKey, nextOpKey,
                 boards, nextBoardKey, nextSubtaskKey, clock, created, serial, log>>

UpdateSubtaskGet(p) ==
  /\ At(p, "updateSubtask", "get")
  /\ LET subtask == TableGet(subtasks, call[p].args.id)
     IN IF subtask = Undefined
        THEN Return(p, Undefined, Undefined)
        ELSE Return(p, Undefined, [subtask |-> Modify(subtask, [id |-> call[p].args.id])])
  /\ UNCHANGED <<stores, clock, created, serial, log>>

CallDeleteSubtask(p, id) ==
  /\ Begin(p, "deleteSubtask", "delete", [id |-> id])
  /\ UNCHANGED <<stores, clock, created>>

\* db.subtasks.delete(id): true is returned whether or not the id was stored
DeleteSubtaskDelete(p) ==
  /\ At(p, "deleteSubtask", "delete")
  /\ subtasks' = TableDelete(subtasks, {call[p].args.id})
  /\ Return(p, Undefined, [bool |-> TRUE])
  /\ UNCHANGED <<tasks, attachments, offlineOps, nextTaskKey, nextAttachmentKey, nextOpKey,
                 boards, nextBoardKey, nextSubtaskKey, clock, created, serial, log>>

\* the lists of subtask ids a caller may pass: without duplicates, of any
\* length, ids that name no subtask included
SubtaskIdLists ==
  UNION {{ids \in [1..n -> SubtaskIds] : \A i, j \in 1..n : i # j => ids[i] # ids[j]} :
           n \in 0..MaxSubtasks}

RECURSIVE ReorderSubtasksLoop(_, _, _, _)
\* for (let i = 0; i < subtaskIds.length; i++) db.subtasks.update(subtaskIds[i], ...);
\* i counts from 1 here, the order written is i - 1
ReorderSubtasksLoop(table, subtaskIds, i, now) ==
  IF i > Len(subtaskIds) THEN table
  ELSE ReorderSubtasksLoop(TableUpdate(table, subtaskIds[i], [order |-> i - 1, updatedAt |-> now]),
                           subtaskIds, i + 1, now)

ReorderSubtasks_FirstOnly(table, subtaskIds, now) ==
  IF subtaskIds = <<>> THEN table
  ELSE ReorderSubtasksLoop(table, <<subtaskIds[1]>>, 1, now)

ReorderSubtasks(table, subtaskIds, now) == ReorderSubtasksLoop(table, subtaskIds, 1, now)

\* reorderSubtasks(_taskId, subtaskIds): the task id is not used
CallReorderSubtasks(p, taskId, subtaskIds) ==
  /\ Begin(p, "reorderSubtasks", "transaction",
           [taskId |-> taskId, subtaskIds |-> subtaskIds, now |-> clock])
  /\ UNCHANGED <<stores, clock, created>>

\* one read-write transaction on db.subtasks: no other request on the table
\* runs between its updates
ReorderSubtasksTransaction(p) ==
  /\ At(p, "reorderSubtasks", "transaction")
  /\ subtasks' = ReorderSubtasks(subtasks, call[p].args.subtaskIds, call[p].args.now)
  /\ Return(p, Undefined, Undefined)
  /\ UNCHANGED <<tasks, attachments, offlineOps, nextTaskKey, nextAttachmentKey, nextOpKey,
                 boards, nextBoardKey, nextSubtaskKey, clock, created, serial, log>>

----------------------------------------------------------------------------
(* boardService *)

BoardNames == {"Geral"}
BoardDeltas == {[name |-> "Work"]}

\* the ids a caller may pass: those of the boards, and one that names no board
BoardIds == 1..(MaxBoards + 1)

\* input.order as passed, or left out
BoardOrders == {[order |-> 0], Undefined}

\* db.boards.orderBy('order').last()
LastByOrder(table) ==
  IF DOMAIN table = {} THEN Undefined
  ELSE table[CHOOSE k \in DOMAIN table :
               \A j \in DOMAIN table :
                  \/ table[j].order < table[k].order
                  \/ (table[j].order = table[k].order /\ j <= k)]

GetNextOrder(table) ==
  LET lastBoard == LastByOrder(table)
  IN (IF lastBoard = Undefined THEN -1 ELSE lastBoard.order) + 1

\* createBoard: getNextOrder is awaited only when input.order is left out
CallCreateBoard(p, name, order) ==
  /\ nextBoardKey + WillAdd({"createBoard", "ensureDefaultBoard"}, {"first", "order", "add"})
       <= MaxBoards
  /\ Begin(p, "createBoard", IF order = Undefined THEN "order" ELSE "add",
           [name |-> name, order |-> order, now |-> clock])
  /\ UNCHANGED <<stores, clock, created>>

CreateBoardOrder(p) ==
  /\ At(p, "createBoard", "order")
  /\ Step(p, "add", [order |-> GetNextOrder(boards)])
  /\ UNCHANGED <<stores, clock, created, serial, log>>

CreateBoardAdd(p) ==
  /\ At(p, "createBoard", "add")
  /\ LET order == IF call[p].args.order = Undefined THEN call[p].local.order
                  ELSE call[p].args.order.order
         board == [name |-> call[p].args.name, order |-> order,
                   createdAt |-> call[p].args.now, updatedAt |-> call[p].args.now]
     IN /\ boards' = TableAdd(boards, nextBoardKey, board)
        /\ Return(p, call[p].local, [board |-> Modify(board, [id |-> nextBoardKey])])
  /\ nextBoardKey' = nextBoardKey + 1
  /\ UNCHANGED <<tasks, attachments, offlineOps, nextTaskKey, nextAttachmentKey, nextOpKey,
                 subtasks, nextSubtaskKey, clock, created, serial, log>>

CallUpdateBoard(p, id, updates) ==
  /\ Begin(p, "updateBoard", "get", [id |-> id, updates |-> updates])
  /\ UNCHANGED <<stores, clock, created>>

UpdateBoardGet(p) ==
  /\ At(p, "updateBoard", "get")
  /\ LET board == TableGet(boards, call[p].args.id)
     IN IF board = Undefined
        THEN Return(p, Undefined, Undefined)
        ELSE Step(p, "put", Modify(Modify(board, call[p].args.updates), [updatedAt |-> clock]))
  /\ UNCHANGED <<stores, clock, created, serial, log>>

UpdateBoardPut(p) ==
  /\ At(p, "updateBoard", "put")
  /\ boards' = TablePut(boards, call[p].args.id, call[p].local)
  /\ Return(p, call[p].local, [board |-> Modify(call[p].local, [id |-> call[p].args.id])])
  /\ UNCHANGED <<tasks, attachments, offlineOps, nextTaskKey, nextAttachmentKey, nextOpKey,
                 subtasks, nextBoardKey, nextSubtaskKey, clock, created, serial, log>>

CallDeleteBoard(p, id) ==
  /\ Begin(p, "deleteBoard", "count", [id |-> id])
  /\ UNCHANGED <<stores, clock, created>>

\* db.boards.count(): the last board cannot be deleted
DeleteBoardCount(p) ==
  /\ At(p, "deleteBoard", "count")
  /\ LET boardCount == Cardinality(DOMAIN boards)
     IN IF boardCount <= 1
        THEN Return(p, Undefined, [bool |-> FALSE])
        ELSE Step(p, "get", Undefined)
  /\ UNCHANGED <<stores, clock, created, serial, log>>

DeleteBoardGet_NoCheck(p) ==
  /\ At(p, "deleteBoard", "get")
  /\ Step(p, "other", [board |-> TableGet(boards, call[p].args.id)])
  /\ UNCHANGED <<stores, clock, created, serial, log>>

DeleteBoardGet(p) ==
  /\ At(p, "deleteBoard", "get")
  /\ LET board == TableGet(boards, call[p].args.id)
     IN IF board = Undefined
        THEN Return(p, Undefined, [bool |-> FALSE])
        ELSE Step(p, "other", [board |-> board])
  /\ UNCHANGED <<stores, clock, created, serial, log>>

\* db.boards.where('id').notEqual(id).first(): the board with the smallest
\* other primary key
FirstOtherBoard(table, id) ==
  LET others == DOMAIN table \ {id}
  IN IF others = {} THEN Undefined
     ELSE LET k == CHOOSE x \in others : \A y \in others : x <= y
          IN Modify(table[k], [id |-> k])

DeleteBoardOther(p) ==
  /\ At(p, "deleteBoard", "other")
  /\ LET otherBoard == FirstOtherBoard(boards, call[p].args.id)
     IN IF otherBoard = Undefined
        THEN Return(p, call[p].local, [bool |-> FALSE])
        ELSE Step(p, "modify", [board |-> call[p].local.board, otherBoard |-> otherBoard])
  /\ UNCHANGED <<stores, clock, created, serial, log>>

ReassignTasks_Drop(table, id, otherId) ==
  [k \in {j \in DOMAIN table : ~("boardId" \in DOMAIN table[j] /\ table[j].boardId = id)} |->
     table[k]]

\* db.tasks.where('boardId').equals(id).modify({ boardId: otherBoard.id })
ReassignTasks(table, id, otherId) ==
  [k \in DOMAIN table |->
     IF "boardId" \in DOMAIN table[k] /\ table[k].boardId = id
     THEN Modify(table[k], [boardId |-> otherId])
     ELSE table[k]]

DeleteBoardModify_Queue(p) ==
  /\ At(p, "deleteBoard", "modify")
  /\ tasks' = ReassignTasks(tasks, call[p].args.id, call[p].local.otherBoard.id)
  /\ QueueOfflineOp("update", "task", call[p].args.id, [boardId |-> call[p].local.otherBoard.id])
  /\ Step(p, "delete", call[p].local)
  /\ UNCHANGED <<attachments, nextTaskKey, nextAttachmentKey,
                 boardsAndSubtasks, clock, created, serial, log>>

DeleteBoardModify(p) ==
  /\ At(p, "deleteBoard", "modify")
  /\ tasks' = ReassignTasks(tasks, call[p].args.id, call[p].local.otherBoard.id)
  /\ Step(p, "delete", call[p].local)
  /\ UNCHANGED <<attachments, offlineOps, nextTaskKey, nextAttachmentKey, nextOpKey,
                 boardsAndSubtasks, clock, created, serial, log>>

DeleteBoardDelete(p) ==
  /\ At(p, "deleteBoard", "delete")
  /\ boards' = TableDelete(boards, {call[p].args.id})
  /\ Return(p, call[p].local, [bool |-> TRUE])
  /\ UNCHANGED <<tasks, attachments, offlineOps, nextTaskKey, nextAttachmentKey, nextOpKey,
                 subtasks, nextBoardKey, nextSubtaskKey, clock, created, serial, log>>

\* the orderings of the board ids a caller may pass
OrderedIds ==
  {ids \in [1..MaxBoards -> 1..MaxBoards] : \A i, j \in 1..MaxBoards : i # j => ids[i] # ids[j]}

CallReorderBoards(p, orderedIds) ==
  /\ Begin(p, "reorderBoards", "transaction", [orderedIds |-> orderedIds, now |-> clock])
  /\ UNCHANGED <<stores, clock, created>>

\* one read-write transaction on db.boards: no other request on the table runs
\* between its updates; update() of an id that is not stored changes nothing
ReorderBoardsTransaction(p) ==
  /\ At(p, "reorderBoards", "transaction")
  /\ LET orderedIds == call[p].args.orderedIds
         Index(id) == CHOOSE i \in 1..Len(orderedIds) : orderedIds[i] = id
     IN boards' = [k \in DOMAIN boards |->
          IF \E i \in 1..Len(orderedIds) : orderedIds[i] = k
          THEN Modify(boards[k], [order |-> Index(k) - 1, updatedAt |-> call[p].args.now])
          ELSE boards[k]]
  /\ Return(p, Undefined, Undefined)
  /\ UNCHANGED <<tasks, attachments, offlineOps, nextTaskKey, nextAttachmentKey, nextOpKey,
                 subtasks, nextBoardKey, nextSubtaskKey, clock, created, serial, log>>

\* db.boards.orderBy('order').first(): of the boards with the smallest order
\* the one with the smallest primary key
FirstByOrder(table) ==
  IF DOMAIN table = {} THEN Undefined
  ELSE LET k == CHOOSE x \in DOMAIN table :
                  \A y \in DOMAIN table :
                     \/ table[x].order < table[y].order
                     \/ (table[x].order = table[y].order /\ x <= y)
       IN Modify(table[k], [id |-> k])

\* a call made while a board is stored takes no key of the table
CallEnsureDefaultBoard(p) ==
  /\ \/ boards # <<>>
     \/ nextBoardKey + WillAdd({"createBoard", "ensureDefaultBoard"}, {"first", "order", "add"})
          <= MaxBoards
  /\ Begin(p, "ensureDefaultBoard", "first", NoArgs)
  /\ UNCHANGED <<stores, clock, created>>

\* the first board is read; without one the call goes on as
\* createBoard({ name: 'Geral', order: 0 }) and returns what that returns.
\* from is history: the createBoard call was made by ensureDefaultBoard
EnsureDefaultBoardFirst(p) ==
  /\ At(p, "ensureDefaultBoard", "first")
  /\ LET existingBoard == FirstByOrder(boards)
     IN IF existingBoard # Undefined
        THEN Return(p, Undefined, [board |-> existingBoard])
        ELSE call' = [call EXCEPT ![p].op = "createBoard", ![p].pc = "add",
                                  ![p].args = [name |-> "Geral", order |-> [order |-> 0],
                                               now |-> clock, from |-> "ensureDefaultBoard"]]
  /\ UNCHANGED <<stores, clock, created, serial, log>>

Tick ==
  /\ NoneDone
  /\ clock < MaxTime
  /\ clock' = clock + 1
  /\ UNCHANGED <<stores, call, created, serial, log>>

----------------------------------------------------------------------------

Init ==
  /\ tasks = <<>>
  /\ attachments = <<>>
  /\ offlineOps = <<>>
  /\ nextTaskKey = 1
  /\ nextAttachmentKey = 1
  /\ nextOpKey = 1
  /\ clock = 1
  /\ call = [p \in Procs |-> IdleCall]
  /\ created = <<>>
  /\ serial = TRUE
  /\ boards = <<>>
  /\ subtasks = <<>>
  /\ nextBoardKey = 1
  /\ nextSubtaskKey = 1
  /\ log = <<>>

TaskServiceNext ==
  \/ \E p \in Procs, title \in Titles, completed \in {FALSE} : CallCreateTask(p, title, completed)
  \/ \E p \in Procs : CreateTaskSequentialId(p)
  \/ \E p \in Procs : CreateTaskAdd(p)
  \/ \E p \in Procs : CreateTaskQueue(p)
  \/ \E p \in Procs, id \in 1..MaxTasks, updates \in Deltas : CallUpdateTask(p, id, updates)
  \/ \E p \in Procs : UpdateTaskGet(p)
  \/ \E p \in Procs : UpdateTaskPut(p)
  \/ \E p \in Procs : UpdateTaskQueue(p)
  \/ \E p \in Procs, id \in 1..MaxTasks : CallDeleteTask(p, id)
  \/ \E p \in Procs : DeleteTaskGet(p)
  \/ \E p \in Procs : DeleteTaskAttachments(p)
  \/ \E p \in Procs : DeleteTaskDelete(p)
  \/ \E p \in Procs : DeleteTaskQueue(p)

FileServiceNext ==
  \/ \E p \in Procs, taskId \in 1..MaxTasks : CallCreateAttachment(p, taskId)
  \/ \E p \in Procs : CreateAttachmentAdd(p)
  \/ \E p \in Procs : CreateAttachmentQueue(p)

GetReadyForSyncNext ==
  \/ \E p \in Procs, arg \in MaxRetriesArgs : CallGetReadyForSync(p, arg)
  \/ \E p \in Procs : GetReadyForSyncToArray(p)

OfflineQueueNext ==
  \/ \E p \in Procs, id \in 1..MaxOps : CallMarkSynced(p, id)
  \/ \E p \in Procs : MarkSyncedUpdate(p)
  \/ \E p \in Procs, id \in 1..MaxOps, error \in Errors : CallMarkFailed(p, id, error)
  \/ \E p \in Procs : MarkFailedGet(p)
  \/ \E p \in Procs : MarkFailedUpdate(p)
  \/ \E p \in Procs : CallCleanupSynced(p)
  \/ \E p \in Procs : CleanupSyncedDelete(p)

ReconcileNext ==
  \E p \in Procs, id \in 1..MaxOps, remoteState \in RemoteStates : CallReconcileConflict(p, id, remoteState)

CreateTaskNext ==
  \/ \E p \in Procs, title \in Titles : CallCreateTask(p, title, FALSE)
  \/ \E p \in Procs : CreateTaskSequentialId(p)
  \/ \E p \in Procs : CreateTaskAdd(p)
  \/ \E p \in Procs : CreateTaskQueue(p)

\* createTask called by one caller only
CreateTaskByOne ==
  \/ \E title \in Titles : CallCreateTask(1, title, FALSE)
  \/ CreateTaskSequentialId(1)
  \/ CreateTaskAdd(1)
  \/ CreateTaskQueue(1)

Environment ==
  \/ Tick
  \/ AckNext

\* the task service alone, at one reading of the clock
SpecTasks == Init /\ [][AckNext \/ TaskServiceNext]_vars

\* the services that write entities and enqueue
SpecServices == Init /\ [][Environment \/ TaskServiceNext \/ FileServiceNext]_vars

\* the sync driver's read of a queue filled by createTask and createAttachment
SpecSync == Init /\ [][Environment \/ CreateTaskNext \/ FileServiceNext \/ GetReadyForSyncNext]_vars

\* the queue operations of two callers, on a queue filled by the createTask
\* calls of one of them, at one reading of the clock
SpecQueue == Init /\ [][AckNext \/ CreateTaskByOne \/ OfflineQueueNext]_vars

\* the conflict reconciler, on the entries of a queue filled by createTask
SpecReconcile == Init /\ [][Environment \/ CreateTaskNext \/ ReconcileNext]_vars

DeleteTaskNext ==
  \/ \E p \in Procs, id \in 1..MaxTasks : CallDeleteTask(p, id)
  \/ \E p \in Procs : DeleteTaskGet(p)
  \/ \E p \in Procs : DeleteTaskAttachments(p)
  \/ \E p \in Procs : DeleteTaskDelete(p)
  \/ \E p \in Procs : DeleteTaskQueue(p)

SubtaskServiceNext ==
  \/ \E p \in Procs, taskId \in 1..MaxTasks, title \in SubtaskTitles, order \in SubtaskOrders :
       CallCreateSubtask(p, taskId, title, order)
  \/ \E p \in Procs : CreateSubtaskAdd(p)
  \/ \E p \in Procs : CreateSubtaskGet(p)
  \/ \E p \in Procs, taskId \in 1..MaxTasks : CallDeleteSubtasksByTaskId(p, taskId)
  \/ \E p \in Procs : DeleteSubtasksByTaskIdDelete(p)

UpdateSubtaskNext ==
  \/ \E p \in Procs, id \in SubtaskIds, updates \in SubtaskDeltas : CallUpdateSubtask(p, id, updates)
  \/ \E p \in Procs : UpdateSubtaskUpdate(p)
  \/ \E p \in Procs : UpdateSubtaskGet(p)

DeleteSubtaskNext ==
  \/ \E p \in Procs, id \in SubtaskIds : CallDeleteSubtask(p, id)
  \/ \E p \in Procs : DeleteSubtaskDelete(p)

\* reorderSubtasks of the subtasks of one task
ReorderSubtasksNext ==
  \/ \E p \in Procs, subtaskIds \in SubtaskIdLists : CallReorderSubtasks(p, 1, subtaskIds)
  \/ \E p \in Procs : ReorderSubtasksTransaction(p)

\* createSubtask called by one caller only, for one task
CreateSubtaskByOne ==
  \/ \E title \in SubtaskTitles, order \in SubtaskOrders : CallCreateSubtask(1, 1, title, order)
  \/ CreateSubtaskAdd(1)
  \/ CreateSubtaskGet(1)

\* the subtasks of one task, created by one caller and deleted and reordered
\* by two, at one reading of the clock
SpecSubtasks == Init /\ [][AckNext \/ CreateSubtaskByOne \/ DeleteSubtaskNext \/ ReorderSubtasksNext]_vars

MarkFailedNext ==
  \/ \E p \in Procs, id \in 1..MaxOps, error \in Errors : CallMarkFailed(p, id, error)
  \/ \E p \in Procs : MarkFailedGet(p)
  \/ \E p \in Procs : MarkFailedUpdate(p)

\* a sync driver's calls, getReadyForSync and markFailed, made by two callers
\* on a queue filled by the createTask calls of one of them
SpecRetry == Init /\ [][AckNext \/ CreateTaskByOne \/ GetReadyForSyncNext \/ MarkFailedNext]_vars

AttachmentAddersNext ==
  \/ \E p \in Procs, taskId \in 1..MaxTasks : CallCreateAttachment(p, taskId)
  \/ \E p \in Procs : CreateAttachmentAdd(p)
  \/ \E p \in Procs : CreateAttachmentQueue(p)
  \/ \E p \in Procs, taskId \in 1..MaxTasks : CallCreateLinkAttachment(p, taskId)
  \/ \E p \in Procs : CreateLinkAttachmentAdd(p)

\* attachments added to the tasks created by one caller, and the deletion of
\* the tasks
SpecOrphans == Init /\ [][AckNext \/ CreateTaskByOne \/ DeleteTaskNext \/ AttachmentAddersNext]_vars

\* a task with its attachments and subtasks, and its deletion
SpecCascade ==
  Init /\ [][AckNext \/ CreateTaskByOne \/ DeleteTaskNext \/ FileServiceNext \/ SubtaskServiceNext]_vars

\* createTask of tasks of the boards, called by one caller only
CreateTaskInBoardByOne ==
  \/ \E title \in Titles, boardId \in 1..MaxBoards : CallCreateTaskInBoard(1, title, FALSE, boardId)
  \/ CreateTaskSequentialId(1)
  \/ CreateTaskAdd(1)
  \/ CreateTaskQueue(1)

BoardServiceNext ==
  \/ \E p \in Procs, name \in BoardNames, order \in BoardOrders : CallCreateBoard(p, name, order)
  \/ \E p \in Procs : CreateBoardOrder(p)
  \/ \E p \in Procs : CreateBoardAdd(p)
  \/ \E p \in Procs, id \in 1..MaxBoards, updates \in BoardDeltas : CallUpdateBoard(p, id, updates)
  \/ \E p \in Procs : UpdateBoardGet(p)
  \/ \E p \in Procs : UpdateBoardPut(p)
  \/ \E p \in Procs, id \in BoardIds : CallDeleteBoard(p, id)
  \/ \E p \in Procs : DeleteBoardCount(p)
  \/ \E p \in Procs : DeleteBoardGet(p)
  \/ \E p \in Procs : DeleteBoardOther(p)
  \/ \E p \in Procs : DeleteBoardModify(p)
  \/ \E p \in Procs : DeleteBoardDelete(p)
  \/ \E p \in Procs, orderedIds \in OrderedIds : CallReorderBoards(p, orderedIds)
  \/ \E p \in Procs : ReorderBoardsTransaction(p)

\* the board service of two callers, with the tasks of the boards created by
\* one of them, at one reading of the clock
SpecBoards == Init /\ [][AckNext \/ CreateTaskInBoardByOne \/ BoardServiceNext]_vars

\* createBoard as ensureDefaultBoard calls it, with the order given
CreateBoardNext ==
  \/ \E p \in Procs, name \in BoardNames : CallCreateBoard(p, name, [order |-> 0])
  \/ \E p \in Procs : CreateBoardAdd(p)

DeleteBoardNext ==
  \/ \E p \in Procs, id \in BoardIds : CallDeleteBoard(p, id)
  \/ \E p \in Procs : DeleteBoardCount(p)
  \/ \E p \in Procs : DeleteBoardGet(p)
  \/ \E p \in Procs : DeleteBoardOther(p)
  \/ \E p \in Procs : DeleteBoardModify(p)
  \/ \E p \in Procs : DeleteBoardDelete(p)

\* boards created and deleted by two callers, with the tasks of the boards
\* created by one of them, at one reading of the clock
SpecDeleteBoard == Init /\ [][AckNext \/ CreateTaskInBoardByOne \/ CreateBoardNext \/ DeleteBoardNext]_vars

ToggleTaskCompleteNext ==
  \/ \E p \in Procs, id \in 1..MaxTasks : CallToggleTaskComplete(p, id)
  \/ \E p \in Procs : ToggleTaskCompleteGet(p)

UpdateTaskNext ==
  \/ \E p \in Procs, id \in 1..MaxTasks, updates \in Deltas : CallUpdateTask(p, id, updates)
  \/ \E p \in Procs : UpdateTaskGet(p)
  \/ \E p \in Procs : UpdateTaskPut(p)
  \/ \E p \in Procs : UpdateTaskQueue(p)

\* updateTask, toggleTaskComplete and deleteTask of two callers, on the tasks
\* created by one of them, at one reading of the clock
SpecToggle ==
  Init /\ [][AckNext \/ CreateTaskByOne \/ UpdateTaskNext \/ ToggleTaskCompleteNext
             \/ DeleteTaskNext]_vars

AttachmentServiceNext ==
  \/ \E p \in Procs, taskId \in 1..MaxTasks, file \in Files : CallCreateAttachmentFile(p, taskId, file)
  \/ \E p \in Procs : CreateAttachmentAdd(p)
  \/ \E p \in Procs : CreateAttachmentQueue(p)
  \/ \E p \in Procs, taskId \in 1..MaxTasks : CallCreateLinkAttachment(p, taskId)
  \/ \E p \in Procs : CreateLinkAttachmentAdd(p)
  \/ \E p \in Procs, id \in 1..MaxAttachments : CallDeleteAttachment(p, id)
  \/ \E p \in Procs : DeleteAttachmentGet(p)
  \/ \E p \in Procs : DeleteAttachmentDelete(p)
  \/ \E p \in Procs : DeleteAttachmentQueue(p)

\* the attachment operations of the file service
SpecFiles == Init /\ [][Environment \/ AttachmentServiceNext]_vars

\* createTask of tasks of the first board, called by one caller only
CreateTaskInFirstBoardByOne ==
  \/ \E title \in Titles : CallCreateTaskInBoard(1, title, FALSE, 1)
  \/ CreateTaskSequentialId(1)
  \/ CreateTaskAdd(1)
  \/ CreateTaskQueue(1)

\* the board operations, called by one caller
BoardsByOne ==
  \/ \E name \in BoardNames, order \in BoardOrders : CallCreateBoard(2, name, order)
  \/ CreateBoardOrder(2)
  \/ CreateBoardAdd(2)
  \/ \E updates \in BoardDeltas : CallUpdateBoard(2, 1, updates)
  \/ UpdateBoardGet(2)
  \/ UpdateBoardPut(2)
  \/ \E id \in BoardIds : CallDeleteBoard(2, id)
  \/ DeleteBoardCount(2)
  \/ DeleteBoardGet(2)
  \/ DeleteBoardOther(2)
  \/ DeleteBoardModify(2)
  \/ DeleteBoardDelete(2)
  \/ \E orderedIds \in OrderedIds : CallReorderBoards(2, orderedIds)
  \/ ReorderBoardsTransaction(2)

\* the subtask operations, called by one caller for one task
SubtasksByOne ==
  \/ \E title \in SubtaskTitles, order \in SubtaskOrders : CallCreateSubtask(2, 1, title, order)
  \/ CreateSubtaskAdd(2)
  \/ CreateSubtaskGet(2)
  \/ \E updates \in SubtaskDeltas : CallUpdateSubtask(2, 1, updates)
  \/ UpdateSubtaskUpdate(2)
  \/ UpdateSubtaskGet(2)
  \/ CallDeleteSubtask(2, 1)
  \/ DeleteSubtaskDelete(2)
  \/ \E subtaskIds \in SubtaskIdLists : Len(subtaskIds) = MaxSubtasks /\ CallReorderSubtasks(2, 1, subtaskIds)
  \/ ReorderSubtasksTransaction(2)

\* one caller works on the subtasks before the first board is created and on
\* the boards when no subtask is stored
UnqueuedByOne ==
  \/ nextBoardKey = 1 /\ SubtasksByOne
  \/ subtasks = <<>> /\ BoardsByOne

\* the operations on subtasks and boards made by one caller while another
\* creates the tasks of the first board, at one reading of the clock
SpecUnqueued == Init /\ [][AckNext \/ CreateTaskInFirstBoardByOne \/ UnqueuedByOne]_vars

EnsureDefaultBoardNext ==
  \/ \E p \in Procs : CallEnsureDefaultBoard(p)
  \/ \E p \in Procs : EnsureDefaultBoardFirst(p)
  \/ \E p \in Procs : CreateBoardAdd(p)

\* createBoard at the next order and reorderBoards, called by one caller
OrderBoardsByOne ==
  \/ \E name \in BoardNames : CallCreateBoard(1, name, Undefined)
  \/ CreateBoardOrder(1)
  \/ \E orderedIds \in OrderedIds : CallReorderBoards(1, orderedIds)
  \/ ReorderBoardsTransaction(1)

\* ensureDefaultBoard called by two callers, on boards that one of them also
\* creates and reorders
SpecEnsure == Init /\ [][Environment \/ EnsureDefaultBoardNext \/ OrderBoardsByOne]_vars

Next ==
  \/ Tick
  \/ AckNext
  \/ TaskServiceNext
  \/ ToggleTaskCompleteNext
  \/ FileServiceNext
  \/ AttachmentServiceNext
  \/ SubtaskServiceNext
  \/ UpdateSubtaskNext
  \/ DeleteSubtaskNext
  \/ ReorderSubtasksNext
  \/ BoardServiceNext
  \/ EnsureDefaultBoardNext
  \/ GetReadyForSyncNext
  \/ OfflineQueueNext
  \/ ReconcileNext

\* every operation
Spec == Init /\ [][Next]_vars

----------------------------------------------------------------------------
(* Properties *)

OpTypeOf(op) ==
  CASE op = "createTask" -> "create"
    [] op = "updateTask" -> "update"
    [] op = "deleteTask" -> "delete"

\* p takes a step of its pending call
Steps(p) == Active(p) /\ call'[p].pc # call[p].pc

\* C1: a createTask, updateTask or deleteTask call appends to the queue only in
\* its last step, and there exactly one entry: entity 'task', entityId the id
\* of the task, opType create / update / delete, synced false, retryCount 0,
\* payload the new record (create), the delta passed in (update), null
\* (delete).  The call returns without that step only when updateTask or
\* deleteTask did not find the id.
C1_OneEntryPerTaskMutation ==
  [][\A p \in Procs :
       (call[p].op \in TaskMutations /\ Steps(p)) =>
         IF call[p].pc = "queue"
         THEN /\ call'[p].pc = "done"
              /\ nextOpKey \notin DOMAIN offlineOps
              /\ DOMAIN offlineOps' = DOMAIN offlineOps \cup {nextOpKey}
              /\ \A k \in DOMAIN offlineOps : offlineOps'[k] = offlineOps[k]
              /\ LET e == offlineOps'[nextOpKey]
                     id == IF call[p].op = "createTask"
                           THEN call'[p].ret.task.id ELSE call[p].args.id
                 IN /\ e.entity = "task"
                    /\ e.entityId = id
                    /\ e.opType = OpTypeOf(call[p].op)
                    /\ e.synced = JSBoolean(FALSE)
                    /\ e.retryCount = 0
                    /\ CASE call[p].op = "createTask" ->
                              /\ Modify(e.payload, [id |-> id]) = call'[p].ret.task
                              /\ e.payload.title = call[p].args.title
                              /\ e.payload.completed = call[p].args.completed
                              /\ call[p].solo => tasks'[id] = e.payload
                         [] call[p].op = "updateTask" -> e.payload = call[p].args.updates
                         [] call[p].op = "deleteTask" -> e.payload = Null
         ELSE /\ offlineOps' = offlineOps
              /\ call'[p].pc = "done" =>
                    /\ call[p].op \in {"updateTask", "deleteTask"}
                    /\ call[p].pc = "get"
                    /\ call[p].args.id \notin DOMAIN tasks]_vars

\* a deleteTask has returned true and the queue holds the create, an update and
\* the delete entry of its task
C1_Witness ==
  \E p \in Procs :
    /\ call[p].pc = "done" /\ call[p].op = "deleteTask" /\ call[p].ret = [bool |-> TRUE]
    /\ \A t \in {"create", "update", "delete"} :
         \E k \in DOMAIN offlineOps :
           offlineOps[k].opType = t /\ offlineOps[k].entityId = call[p].args.id

\* C2: as long as calls run one after another, every sequentialId handed out
\* is greater than all handed out before, tasks since deleted included.
C2_SequentialIdsNeverReused ==
  serial => \A i, j \in 1..Len(created) : i < j => created[i] < created[j]

HasSequentialId(p) == call[p].op = "createTask" /\ call[p].pc \in {"add", "queue", "done"}

\* C3: two createTask calls pending at the same time never hold the same
\* sequentialId for their tasks.
C3_InterleavedCreatesDiffer ==
  \A p, q \in Procs :
    (p # q /\ HasSequentialId(p) /\ HasSequentialId(q)) =>
      call[p].local.task.sequentialId # call[q].local.task.sequentialId

Unsynced == {k \in DOMAIN offlineOps : offlineOps[k].synced = JSBoolean(FALSE)}

\* C4: the pending list holds exactly the entries with synced false, in
\* non-decreasing timestamp order, and the pending count is its length.
C4_PendingListIsUnsynced ==
  /\ {usePendingOps[i].id : i \in 1..Len(usePendingOps)} = Unsynced
  /\ Len(usePendingOps) = Cardinality(Unsynced)
  /\ \A i, j \in 1..Len(usePendingOps) :
       i < j => usePendingOps[i].timestamp <= usePendingOps[j].timestamp
  /\ usePendingOpsCount = Len(usePendingOps)

Returned(p, op) == call[p].op = op /\ call[p].pc = "done"

\* the entries getReadyForSync is to return for the call of p
Ready(p) ==
  LET n == IF call[p].args.given = Undefined THEN 3 ELSE call[p].args.given.maxRetries
  IN {k \in Unsynced : offlineOps[k].retryCount < n}

\* C5: getReadyForSync(n) returns exactly the entries with synced false and
\* retryCount < n, where n is 3 when no argument is passed.
C5_ReadyIsUnsyncedBelowMaxRetries ==
  \A p \in Procs :
    Returned(p, "getReadyForSync") =>
      LET ops == call[p].ret.ops
      IN /\ {ops[i].id : i \in 1..Len(ops)} = Ready(p)
         /\ Len(ops) = Cardinality(Ready(p))

C7_ReconcileDecisionTable ==
  [][\A p \in Procs :
       (call'[p].op = "reconcileConflict" /\ call'[p].pc = "done" /\ call[p].pc # "done") =>
         LET localOp == call'[p].args.localOp
             remoteState == call'[p].args.remoteState
             winner == call'[p].ret.winner
         IN /\ remoteState = Null => winner = "local"
            /\ remoteState = [none |-> TRUE] => winner = "local"
            /\ "updatedAt" \in DOMAIN remoteState =>
                 /\ localOp.timestamp > remoteState.updatedAt => winner = "local"
                 /\ localOp.timestamp <= remoteState.updatedAt => winner = "remote"
            /\ UNCHANGED stores]_vars

\* equal timestamps went to 'remote'
C7_Witness ==
  \E p \in Procs :
    /\ Returned(p, "reconcileConflict")
    /\ "updatedAt" \in DOMAIN call[p].args.remoteState
    /\ call[p].args.remoteState.updatedAt = call[p].args.localOp.timestamp
    /\ call[p].ret.winner = "remote"

\* C8: markFailed(id, msg) reads without writing; run with no other call
\* pending, its write sets lastError to msg and adds one to retryCount of the
\* entry and changes nothing else; for an id not in the queue it returns after
\* the read, so nothing is written.
C8_MarkFailedEffect ==
  [][\A p \in Procs :
       (call[p].op = "markFailed" /\ Steps(p)) =>
         LET id == call[p].args.id
         IN IF call[p].pc = "get"
            THEN /\ offlineOps' = offlineOps
                 /\ id \notin DOMAIN offlineOps => call'[p].pc = "done"
            ELSE call[p].solo =>
                   /\ id \in DOMAIN offlineOps
                   /\ DOMAIN offlineOps' = DOMAIN offlineOps
                   /\ \A k \in DOMAIN offlineOps \ {id} : offlineOps'[k] = offlineOps[k]
                   /\ offlineOps'[id].lastError = call[p].args.error
                   /\ offlineOps'[id].retryCount = offlineOps[id].retryCount + 1
                   /\ DOMAIN offlineOps'[id] = DOMAIN offlineOps[id] \cup {"lastError"}
                   /\ \A f \in DOMAIN offlineOps[id] \ {"lastError", "retryCount"} :
                        offlineOps'[id][f] = offlineOps[id][f]]_vars

\* a markFailed that ran alone has returned and its entry has failed twice
C8_Witness ==
  \E p \in Procs :
    /\ Returned(p, "markFailed") /\ call[p].solo
    /\ call[p].args.id \in DOMAIN offlineOps
    /\ offlineOps[call[p].args.id].retryCount = 2
    /\ offlineOps[call[p].args.id].lastError = call[p].args.error
    /\ offlineOps[call[p].args.id].synced = JSBoolean(FALSE)

\* C9: markSynced(id) sets synced to true on the entry id and changes no other
\* field and no other entry; run again on the state it produced, or on an
\* entry that is already synced, it changes nothing.
C9_MarkSyncedIdempotent ==
  [][\A p \in Procs :
       (call[p].op = "markSynced" /\ Steps(p)) =>
         LET id == call[p].args.id
         IN /\ DOMAIN offlineOps' = DOMAIN offlineOps
            /\ \A k \in DOMAIN offlineOps \ {id} : offlineOps'[k] = offlineOps[k]
            /\ id \in DOMAIN offlineOps =>
                 /\ offlineOps'[id].synced = JSBoolean(TRUE)
                 /\ DOMAIN offlineOps'[id] = DOMAIN offlineOps[id]
                 /\ \A f \in DOMAIN offlineOps[id] \ {"synced"} :
                      offlineOps'[id][f] = offlineOps[id][f]
                 /\ offlineOps[id].synced = JSBoolean(TRUE) => offlineOps' = offlineOps
            /\ MarkSynced(offlineOps', id) = offlineOps']_vars

\* markSynced has returned for an entry that failed before: synced is true,
\* retryCount and lastError are kept
C9_Witness ==
  \E p \in Procs :
    /\ Returned(p, "markSynced")
    /\ call[p].args.id \in DOMAIN offlineOps
    /\ offlineOps[call[p].args.id].synced = JSBoolean(TRUE)
    /\ offlineOps[call[p].args.id].retryCount > 0

\* C10: cleanupSynced removes exactly the entries with synced true, returns
\* how many it removed and leaves the other entries as they were.
C10_CleanupRemovesSynced ==
  [][\A p \in Procs :
       (call[p].op = "cleanupSynced" /\ Steps(p)) =>
         /\ DOMAIN offlineOps' = {k \in DOMAIN offlineOps : offlineOps[k].synced # JSBoolean(TRUE)}
         /\ \A k \in DOMAIN offlineOps' : offlineOps'[k] = offlineOps[k]
         /\ call'[p].ret = [count |-> Cardinality(DOMAIN offlineOps \ DOMAIN offlineOps')]]_vars

\* C11: once a queue entry exists no step changes its opId, opType, entity,
\* entityId, payload or timestamp; an entry that stays in the queue changes
\* only by synced going from false to true (never back), by retryCount going
\* up (never down) and by lastError being set.
C11_EntryChangesOnlyByFlags ==
  [][\A k \in DOMAIN offlineOps \cap DOMAIN offlineOps' :
       LET before == offlineOps[k]
           after == offlineOps'[k]
       IN /\ \A f \in {"opId", "opType", "entity", "entityId", "payload", "timestamp"} :
               after[f] = before[f]
          /\ before.synced = JSBoolean(TRUE) => after.synced = JSBoolean(TRUE)
          /\ after.retryCount >= before.retryCount
          /\ DOMAIN before \subseteq DOMAIN after
          /\ DOMAIN after \subseteq DOMAIN before \cup {"lastError"}]_vars

\* C12: when deleteTask(id) has returned true and no other call was pending
\* during it, task id is absent, no attachment with taskId = id remains and no
\* subtask with taskId = id remains.
C12_DeleteTaskCascades ==
  \A p \in Procs :
    (Returned(p, "deleteTask") /\ call[p].solo /\ call[p].ret = [bool |-> TRUE]) =>
      LET id == call[p].args.id
      IN /\ id \notin DOMAIN tasks
         /\ \A k \in DOMAIN attachments : attachments[k].taskId # id
         /\ \A k \in DOMAIN subtasks : subtasks[k].taskId # id

\* the queue holds a delete entry for task id
HasDeleteEntry(id) ==
  \E k \in DOMAIN offlineOps :
     /\ offlineOps[k].entity = "task"
     /\ offlineOps[k].opType = "delete"
     /\ offlineOps[k].entityId = id

\* p runs deleteTask and has found its task
DeletingTask(p) ==
  /\ call[p].op = "deleteTask"
  /\ \/ call[p].pc \in {"attachments", "delete", "queue"}
     \/ call[p].pc = "done" /\ call[p].ret = [bool |-> TRUE]

\* C13: in every state of a deleteTask(id) run that found its task, from the
\* read of the task to the return: if the task is absent, no attachment with
\* taskId = id that was stored when the call started is still stored; and the
\* queue holds a delete entry for id only if the task is absent.
C13_DeleteTaskOrder ==
  \A p \in Procs :
    DeletingTask(p) =>
      LET id == call[p].args.id
      IN /\ id \notin DOMAIN tasks =>
              \A k \in call[p].args.attachmentKeys \cap DOMAIN attachments :
                 attachments[k].taskId # id
         /\ HasDeleteEntry(id) => id \notin DOMAIN tasks

\* C14: from a state with at least one board, no step of createBoard,
\* updateBoard, reorderBoards or deleteBoard, however the calls interleave,
\* leads to a state with no board.
C14_AtLeastOneBoard ==
  [][Cardinality(DOMAIN boards) >= 1 => Cardinality(DOMAIN boards') >= 1]_vars

\* the task is one of the board
OnBoard(task, id) == "boardId" \in DOMAIN task /\ task.boardId = id

\* p takes a step of a deleteBoard call during which no other call was pending
DeleteBoardSteps(p) == call[p].op = "deleteBoard" /\ Steps(p) /\ call[p].solo

\* C15: a deleteBoard(id) call made when exactly one board exists, or when id
\* names no board, changes nothing in any of its steps (the boards table, the
\* tasks and their boardId, the queue), goes no further than the read of the
\* board, and returns false.
C15_DeleteBoardRefuses ==
  [][\A p \in Procs :
       (/\ DeleteBoardSteps(p)
        /\ \/ Cardinality(DOMAIN boards) = 1
           \/ call[p].args.id \notin DOMAIN boards) =>
         /\ boards' = boards
         /\ tasks' = tasks
         /\ offlineOps' = offlineOps
         /\ call'[p].pc \in {"get", "done"}
         /\ call'[p].pc = "done" => call'[p].ret = [bool |-> FALSE]]_vars

\* deleteBoard of the only board, which has a task, has returned false
C15_Witness ==
  \E p \in Procs :
    /\ Returned(p, "deleteBoard")
    /\ call[p].solo
    /\ call[p].ret = [bool |-> FALSE]
    /\ DOMAIN boards = {call[p].args.id}
    /\ \E k \in DOMAIN tasks : OnBoard(tasks[k], call[p].args.id)

\* C16: in a deleteBoard(id) call that returns true, with no other call
\* pending during it: the tasks are changed by the reassigning step only,
\* which gives every task of board id the boardId of one other board and
\* leaves the other tasks as they are; no step adds or removes a task; and at
\* the return board id is gone, that other board is still stored and no task
\* is left on board id.
C16_DeleteBoardReassigns ==
  [][\A p \in Procs :
       DeleteBoardSteps(p) =>
         LET id == call[p].args.id
         IN /\ DOMAIN tasks' = DOMAIN tasks
            /\ call[p].pc # "modify" => tasks' = tasks
            /\ call[p].pc = "modify" =>
                 \E b \in DOMAIN boards \ {id} :
                    /\ call'[p].local.otherBoard.id = b
                    /\ \A k \in DOMAIN tasks :
                         tasks'[k] = IF OnBoard(tasks[k], id)
                                     THEN Modify(tasks[k], [boardId |-> b])
                                     ELSE tasks[k]
            /\ (call'[p].pc = "done" /\ call'[p].ret = [bool |-> TRUE]) =>
                 /\ DOMAIN boards' = DOMAIN boards \ {id}
                 /\ id \in DOMAIN boards
                 /\ call'[p].local.otherBoard.id \in DOMAIN boards'
                 /\ \A k \in DOMAIN tasks' : ~OnBoard(tasks'[k], id)]_vars

\* deleteBoard has returned true and a task created on the deleted board is
\* now on the other board
C16_Witness ==
  \E p \in Procs :
    /\ Returned(p, "deleteBoard")
    /\ call[p].solo
    /\ call[p].ret = [bool |-> TRUE]
    /\ \E e \in DOMAIN offlineOps :
         /\ offlineOps[e].opType = "create"
         /\ offlineOps[e].entity = "task"
         /\ OnBoard(offlineOps[e].payload, call[p].args.id)
         /\ offlineOps[e].entityId \in DOMAIN tasks
         /\ OnBoard(tasks[offlineOps[e].entityId], call[p].local.otherBoard.id)

\* the opTypes of the queue entries, in the order the entries were added
QueueOpTypes ==
  LET keys == Ascending(DOMAIN offlineOps)
  IN [i \in 1..Len(keys) |-> offlineOps[keys[i]].opType]

\* from the empty store the calls so far were, one after another, createTask,
\* updateTask twice on the new task and deleteTask on it, and the last has
\* returned
CreateUpdateTwiceDelete ==
  /\ serial
  /\ \A p \in Procs : ~Active(p)
  /\ \E id \in 1..MaxTasks :
       log = <<[op |-> "createTask", id |-> id], [op |-> "updateTask", id |-> id],
               [op |-> "updateTask", id |-> id], [op |-> "deleteTask", id |-> id]>>

\* C17 as stated: after createTask, updateTask twice on that task and
\* deleteTask on it, run one after another from an empty queue, the queue
\* holds exactly 3 entries, with opTypes create, update, delete in this order.
C17_ThreeEntries ==
  CreateUpdateTwiceDelete => QueueOpTypes = <<"create", "update", "delete">>

\* C17 amended: after createTask, updateTask twice on that task and deleteTask
\* on it, run one after another from an empty queue, the queue holds exactly
\* 4 entries, one per call, with opTypes create, update, update, delete in
\* this order.
C17_OneEntryPerCall ==
  CreateUpdateTwiceDelete => QueueOpTypes = <<"create", "update", "update", "delete">>

C17_Witness == CreateUpdateTwiceDelete /\ Len(QueueOpTypes) = 4

\* C18: updateTask, toggleTaskComplete and deleteTask return at their read of
\* the task when the id names no stored task, with undefined, undefined and
\* false, and that step leaves the tasks, the attachments and the queue as
\* they were: nothing is enqueued.
C18_NotFoundChangesNothing ==
  [][\A p \in Procs :
       (/\ call[p].op \in {"updateTask", "toggleTaskComplete", "deleteTask"}
        /\ call[p].pc = "get"
        /\ \/ Steps(p)
           \/ call'[p].op # call[p].op
        /\ call[p].args.id \notin DOMAIN tasks) =>
         /\ call'[p].pc = "done"
         /\ call'[p].ret = IF call[p].op = "deleteTask" THEN [bool |-> FALSE] ELSE Undefined
         /\ tasks' = tasks
         /\ attachments' = attachments
         /\ offlineOps' = offlineOps
         /\ nextOpKey' = nextOpKey]_vars

\* toggleTaskComplete of an id that names no task has returned undefined,
\* with another task and its queue entry stored
C18_Witness ==
  \E p \in Procs :
    /\ Returned(p, "toggleTaskComplete")
    /\ call[p].args.id \notin DOMAIN tasks
    /\ call[p].ret = Undefined
    /\ DOMAIN tasks # {}
    /\ DOMAIN offlineOps # {}

AttachmentMutations == {"createAttachment", "createLinkAttachment", "deleteAttachment"}

\* the step in which p returns an attachment it created, or true from
\* deleteAttachment
AttachmentMutated(p) ==
  /\ call'[p].pc = "done"
  /\ \/ "attachment" \in DOMAIN call'[p].ret
     \/ call[p].op = "deleteAttachment" /\ call'[p].ret = [bool |-> TRUE]

\* C19: a createAttachment, createLinkAttachment or deleteAttachment call that
\* creates or deletes an attachment appends exactly one queue entry, in the
\* step in which it returns: entity 'attachment', entityId the id of the
\* attachment, opType create or delete, synced false, retryCount 0.  No other
\* step of these calls changes the queue.
C19_OneEntryPerAttachmentMutation ==
  [][\A p \in Procs :
       (call[p].op \in AttachmentMutations /\ Steps(p)) =>
         IF AttachmentMutated(p)
         THEN /\ nextOpKey \notin DOMAIN offlineOps
              /\ DOMAIN offlineOps' = DOMAIN offlineOps \cup {nextOpKey}
              /\ \A k \in DOMAIN offlineOps : offlineOps'[k] = offlineOps[k]
              /\ LET e == offlineOps'[nextOpKey]
                 IN /\ e.entity = "attachment"
                    /\ e.entityId = IF call[p].op = "deleteAttachment"
                                    THEN call[p].args.id ELSE call'[p].ret.attachment
                    /\ e.opType = IF call[p].op = "deleteAttachment"
                                  THEN "delete" ELSE "create"
                    /\ e.synced = JSBoolean(FALSE)
                    /\ e.retryCount = 0
         ELSE offlineOps' = offlineOps]_vars

\* C20: a createAttachment call with a file whose MIME type is not on the
\* allow-list, or whose size is above the maximum, adds no attachment and no
\* queue entry and returns at once with a value, not a thrown fault; a file
\* of an allowed type whose size is at most the maximum is not rejected.
C20_CreateAttachmentValidates ==
  [][\A p \in Procs :
       (call'[p].op = "createAttachment" /\ call'[p].pc # call[p].pc) =>
         IF ValidateFile(call'[p].args.file, DEFAULT_MAX_SIZE).valid
         THEN call'[p].pc = "done" => "attachment" \in DOMAIN call'[p].ret
         ELSE /\ attachments' = attachments
              /\ offlineOps' = offlineOps
              /\ call'[p].pc = "done"
              /\ "thrown" \notin DOMAIN call'[p].ret]_vars

\* C21: the step of reorderSubtasks(taskId, orderedIds), orderedIds without
\* duplicates, is the only step of the call and writes all at once: every
\* stored subtask orderedIds[i] gets order i (counted from 0), changes in no
\* other field than order and updatedAt, no subtask is added or removed, the
\* subtasks not listed stay as they are; when orderedIds lists exactly the
\* stored subtasks, their orders afterwards are 0..n-1, each once.
C21_ReorderSubtasksAtOnce ==
  [][\A p \in Procs :
       (call[p].op = "reorderSubtasks" /\ Steps(p)) =>
         LET orderedIds == call[p].args.subtaskIds
             listed == {orderedIds[i] : i \in 1..Len(orderedIds)}
         IN /\ call'[p].pc = "done"
            /\ DOMAIN subtasks' = DOMAIN subtasks
            /\ \A i \in 1..Len(orderedIds) :
                 orderedIds[i] \in DOMAIN subtasks => subtasks'[orderedIds[i]].order = i - 1
            /\ \A k \in DOMAIN subtasks :
                 /\ k \notin listed => subtasks'[k] = subtasks[k]
                 /\ DOMAIN subtasks'[k] = DOMAIN subtasks[k]
                 /\ \A f \in DOMAIN subtasks[k] \ {"order", "updatedAt"} :
                      subtasks'[k][f] = subtasks[k][f]
            /\ listed = DOMAIN subtasks =>
                 /\ {subtasks'[k].order : k \in DOMAIN subtasks} = 0..(Len(orderedIds) - 1)
                 /\ \A j, k \in DOMAIN subtasks : j # k => subtasks'[j].order # subtasks'[k].order]_vars

\* reorderSubtasks has put the second of two subtasks first
C21_Witness ==
  \E p \in Procs :
    /\ Returned(p, "reorderSubtasks")
    /\ call[p].args.subtaskIds = <<2, 1>>
    /\ DOMAIN subtasks = {1, 2}
    /\ subtasks[2].order = 0
    /\ subtasks[1].order = 1
\* p runs the updateTask that a toggleTaskComplete made, with no other call
\* pending since the toggleTaskComplete started
Toggling(p) == call[p].op = "updateTask" /\ "from" \in DOMAIN call[p].args /\ call[p].solo

\* from the empty store the calls so far were, one after another, createTask
\* and toggleTaskComplete twice on the new task, and the last has returned
CreateToggleTwice(id) ==
  /\ serial
  /\ \A p \in Procs : ~Active(p)
  /\ log = <<[op |-> "createTask", id |-> id], [op |-> "toggleTaskComplete", id |-> id],
             [op |-> "toggleTaskComplete", id |-> id]>>

\* C22: toggleTaskComplete(id) on a stored task, with no other call pending
\* during it, writes the task once, with completed negated, updatedAt set and
\* every other field as it was, and appends exactly one update entry for the
\* task, with payload {completed: the new value}; after createTask and two
\* such toggles the task has the completed value it was created with and the
\* queue holds the create entry and two update entries.
C22_ToggleNegates ==
  /\ [][\A p \in Procs :
          (Toggling(p) /\ Steps(p)) =>
            LET id == call[p].args.id
            IN CASE call[p].pc = "get" -> UNCHANGED stores /\ call'[p].pc = "put"
                 [] call[p].pc = "put" ->
                      /\ offlineOps' = offlineOps
                      /\ DOMAIN tasks' = DOMAIN tasks
                      /\ \A k \in DOMAIN tasks \ {id} : tasks'[k] = tasks[k]
                      /\ tasks'[id].completed = ~tasks[id].completed
                      /\ tasks'[id].updatedAt = clock
                      /\ DOMAIN tasks'[id] = DOMAIN tasks[id]
                      /\ \A f \in DOMAIN tasks[id] \ {"completed", "updatedAt"} :
                           tasks'[id][f] = tasks[id][f]
                 [] call[p].pc = "queue" ->
                      /\ tasks' = tasks
                      /\ call'[p].pc = "done"
                      /\ DOMAIN offlineOps' = DOMAIN offlineOps \cup {nextOpKey}
                      /\ nextOpKey \notin DOMAIN offlineOps
                      /\ \A k \in DOMAIN offlineOps : offlineOps'[k] = offlineOps[k]
                      /\ offlineOps'[nextOpKey].opType = "update"
                      /\ offlineOps'[nextOpKey].entity = "task"
                      /\ offlineOps'[nextOpKey].entityId = id
                      /\ offlineOps'[nextOpKey].payload = [completed |-> tasks[id].completed]]_vars
  /\ [](\A id \in 1..MaxTasks :
          CreateToggleTwice(id) =>
            /\ id \in DOMAIN tasks
            /\ tasks[id].completed = offlineOps[1].payload.completed
            /\ QueueOpTypes = <<"create", "update", "update">>
            /\ offlineOps[2].payload = [completed |-> ~offlineOps[1].payload.completed]
            /\ offlineOps[3].payload = [completed |-> offlineOps[1].payload.completed])

\* a task was created and toggled twice, and the second toggle has returned it
C22_Witness ==
  \E p \in Procs, id \in 1..MaxTasks :
    /\ CreateToggleTwice(id)
    /\ call[p].pc = "done"
    /\ "from" \in DOMAIN call[p].args
    /\ call[p].ret = [task |-> Modify(tasks[id], [id |-> id])]
    /\ Len(QueueOpTypes) = 3
\* C23: no step lowers the retryCount of an entry that stays in the queue, and
\* getReadyForSync(maxRetries) returns only entries with synced false whose
\* retryCount is below maxRetries: an entry that has reached maxRetries is not
\* returned again, so a driver that calls markFailed only on returned entries
\* fails each entry at most maxRetries times and leaves it pending.
C23_RetriesBounded ==
  [][/\ \A k \in DOMAIN offlineOps \cap DOMAIN offlineOps' :
          offlineOps'[k].retryCount >= offlineOps[k].retryCount
     /\ \A p \in Procs :
          (call[p].op = "getReadyForSync" /\ Steps(p)) =>
            LET ops == call'[p].ret.ops
            IN \A i \in 1..Len(ops) :
                 /\ ops[i].retryCount < call[p].args.maxRetries
                 /\ ops[i].synced = JSBoolean(FALSE)
                 /\ offlineOps[ops[i].id].retryCount = ops[i].retryCount
     /\ \A p \in Procs :
          (call[p].op = "markFailed" /\ Steps(p) /\ call[p].args.id \in DOMAIN offlineOps) =>
            offlineOps'[call[p].args.id].synced = offlineOps[call[p].args.id].synced]_vars
UnqueuedOps ==
  {"reorderSubtasks", "reorderBoards", "createBoard", "updateBoard", "createSubtask",
   "updateSubtask", "deleteSubtask", "deleteBoard"}

TaskEntries(id) ==
  LET keys == {k \in DOMAIN offlineOps :
                 offlineOps[k].entity = "task" /\ offlineOps[k].entityId = id}
  IN SortByTimestamp(ToArray(offlineOps, Ascending(keys)))

\* C25: in every state the queue entries of one task id, read in timestamp
\* order, start with its create entry, and no update entry comes after its
\* delete entry.
C25_CausalOrderPerTask ==
  \A id \in 1..MaxTasks :
    LET es == TaskEntries(id)
    IN /\ es # <<>> => es[1].opType = "create"
       /\ \A i, j \in 1..Len(es) :
            (i < j /\ es[i].opType = "delete") => es[j].opType # "update"
\* a call that reads or writes task id is pending
PendingOn(id) ==
  \E p \in Procs :
    /\ Active(p)
    /\ \/ call[p].op \in {"updateTask", "toggleTaskComplete", "deleteTask"} /\ call[p].args.id = id
       \/ call[p].op = "createTask" /\ call[p].pc = "queue" /\ call[p].local.id = id

\* C26: when two updateTask calls on task id with disjoint sets of fields have
\* returned, whatever the order of their steps, and the queue holds for id its
\* create entry and their two update entries, the stored task is, updatedAt
\* apart, the created record with the two deltas applied in queue order: it
\* carries the new values of both calls.
C26_NoLostUpdate ==
  \A id \in DOMAIN tasks :
    LET es == TaskEntries(id)
    IN (/\ ~PendingOn(id)
        /\ Len(es) = 3
        /\ es[1].opType = "create" /\ es[2].opType = "update" /\ es[3].opType = "update"
        /\ DOMAIN es[2].payload \cap DOMAIN es[3].payload = {}) =>
         LET merged == Modify(Modify(es[1].payload, es[2].payload), es[3].payload)
         IN /\ DOMAIN tasks[id] = DOMAIN merged
            /\ \A f \in DOMAIN merged \ {"updatedAt"} : tasks[id][f] = merged[f]
\* C27: when deleteTask(id) has returned true, so that the queue holds the
\* delete entry of id, and no call on task id is pending any more, no task with
\* that id is stored, whatever updateTask or toggleTaskComplete calls ran at
\* the same time.
C27_DeletedStaysDeleted ==
  \A id \in 1..MaxTasks :
    (HasDeleteEntry(id) /\ ~PendingOn(id)) => id \notin DOMAIN tasks
\* a call that adds an attachment to task id, or deletes task id, is pending
PendingOnAttachmentsOf(id) ==
  \E p \in Procs :
    /\ Active(p)
    /\ \/ call[p].op \in AttachmentAdders /\ call[p].args.taskId = id
       \/ call[p].op = "deleteTask" /\ call[p].args.id = id

\* C28: when a createAttachment or createLinkAttachment call on a task that
\* was stored when it started and a deleteTask call on that task have both
\* returned, whatever the order of their steps, the attachment is not stored
\* unless its task is: whichever of the two calls returns last, no attachment
\* added during them names the deleted task.
C28_NoOrphanAttachment ==
  \A p \in Procs :
    /\ (/\ call[p].pc = "done"
        /\ call[p].op \in AttachmentAdders
        /\ "attachment" \in DOMAIN call[p].ret
        /\ call[p].args.taskStored
        /\ ~PendingOnAttachmentsOf(call[p].args.taskId)
        /\ call[p].ret.attachment \in DOMAIN attachments) =>
         call[p].args.taskId \in DOMAIN tasks
    /\ (/\ Returned(p, "deleteTask")
        /\ call[p].ret = [bool |-> TRUE]
        /\ ~PendingOnAttachmentsOf(call[p].args.id)
        /\ call[p].args.id \notin DOMAIN tasks) =>
         \A k \in DOMAIN attachments \ call[p].args.attachmentKeys :
            attachments[k].taskId # call[p].args.id
\* C29: each markFailed call on a stored entry adds exactly one to the
\* retryCount the entry has when the call writes, however the calls
\* interleave, and no other step changes retryCount: after k completed calls
\* on an entry created with retryCount 0 its retryCount is k.
C29_RetryCountExact ==
  [][\A k \in DOMAIN offlineOps \cap DOMAIN offlineOps' :
       IF \E p \in Procs : /\ call[p].op = "markFailed" /\ call[p].pc = "update"
                           /\ Steps(p) /\ call[p].args.id = k
       THEN offlineOps'[k].retryCount = offlineOps[k].retryCount + 1
       ELSE offlineOps'[k].retryCount = offlineOps[k].retryCount]_vars
\* p runs, or has run, an ensureDefaultBoard call
Ensuring(p) ==
  \/ call[p].op = "ensureDefaultBoard"
  \/ call[p].op = "createBoard" /\ "from" \in DOMAIN call[p].args

\* C30: an ensureDefaultBoard call adds a board only to a store without
\* boards, so calls made on a store that starts without boards leave exactly
\* one; a call that finds a board changes nothing and returns at once; and
\* whichever way it returns, it returns the stored board that is first by
\* order, the same for every call.
C30_OneDefaultBoard ==
  [][\A p \in Procs :
       (Ensuring(p) /\ Steps(p)) =>
         /\ boards' # boards => (boards = <<>> /\ Cardinality(DOMAIN boards') = 1)
         /\ (call[p].pc = "first" /\ boards # <<>>) => (call'[p].pc = "done" /\ boards' = boards)
         /\ call'[p].pc = "done" =>
              /\ call'[p].ret.board = FirstByOrder(boards')
              /\ \A k \in DOMAIN boards' : call'[p].ret.board.order <= boards'[k].order]_vars

====
